---- MODULE Spec2Model ----
(***************************************************************************)
(* Model of the Minesweeper knowledge engine of src/minesweeper.py:        *)
(* class Sentence, class MinesweeperAI and the part of class Minesweeper   *)
(* (nearby_mines, is_mine) that feeds MinesweeperAI.add_knowledge.         *)
(*                                                                         *)
(* A Sentence is the record [cells |-> set of cells, count |-> integer].   *)
(* The engine is the record [moves_made, safes, mines, knowledge] with     *)
(* knowledge a sequence of sentences (a Python list, in list order).       *)
(* Python's None is the empty set and a returned value x is {x}.           *)
(***************************************************************************)
EXTENDS Integers, Sequences, FiniteSets

VARIABLES board, moves_made, safes, mines, knowledge, pc, calls, op, move

vars == <<board, moves_made, safes, mines, knowledge, pc, calls, op, move>>

(* ------------------------------ bounds -------------------------------- *)

Height == 2

Width == 3

MaxMines == 3

MaxCalls == 2

MaxCount == 3

MaxScanCalls == 3

Cells == (0 .. Height - 1) \X (0 .. Width - 1)

Counts == 0 .. MaxCount

None == {}

Some(x) == {x}

(* --------------------------- class Minesweeper ------------------------ *)

\* range(cell[0] - 1, cell[0] + 2) x range(cell[1] - 1, cell[1] + 2), in bounds
Around(cell) ==
    {c \in Cells : /\ c[1] \in (cell[1] - 1) .. (cell[1] + 1)
                   /\ c[2] \in (cell[2] - 1) .. (cell[2] + 1)}

is_mine(b, cell) == cell \in b

nearby_mines(b, cell) == Cardinality({c \in Around(cell) : c # cell /\ is_mine(b, c)})

(* ----------------------------- class Sentence ------------------------- *)

Sentence(cells, count) == [cells |-> cells, count |-> count]

known_mines_atleast(s) == IF Cardinality(s.cells) >= s.count THEN Some(s.cells) ELSE None

known_mines(s) == IF Cardinality(s.cells) = s.count THEN Some(s.cells) ELSE None

known_safes(s) == IF s.count = 0 THEN Some(s.cells) ELSE None

\* Python truth value of the result of known_mines / known_safes:
\* None and the empty set are both false.
Truthy(r) == r # None /\ r # Some({})

Sentence_mark_mine_nodec(s, cell) ==
    IF cell \in s.cells THEN Sentence(s.cells \ {cell}, s.count) ELSE s

Sentence_mark_mine(s, cell) ==
    IF cell \in s.cells THEN Sentence(s.cells \ {cell}, s.count - 1) ELSE s

Sentence_mark_safe(s, cell) ==
    IF cell \in s.cells THEN Sentence(s.cells \ {cell}, s.count) ELSE s

(* --------------------------- class MinesweeperAI ---------------------- *)

Self == [moves_made |-> moves_made, safes |-> safes, mines |-> mines,
         knowledge |-> knowledge]

mark_mine_first_sentence(ai, cell) ==
    [ai EXCEPT !.mines = @ \cup {cell},
               !.knowledge = [i \in DOMAIN @ |->
                                 IF i = 1 THEN Sentence_mark_mine(@[i], cell) ELSE @[i]]]

mark_mine(ai, cell) ==
    [ai EXCEPT !.mines = @ \cup {cell},
               !.knowledge = [i \in DOMAIN @ |-> Sentence_mark_mine(@[i], cell)]]

mark_safe_clears_mine(ai, cell) ==
    [ai EXCEPT !.safes = @ \cup {cell},
               !.mines = @ \ {cell},
               !.knowledge = [i \in DOMAIN @ |-> Sentence_mark_safe(@[i], cell)]]

mark_safe(ai, cell) ==
    [ai EXCEPT !.safes = @ \cup {cell},
               !.knowledge = [i \in DOMAIN @ |-> Sentence_mark_safe(@[i], cell)]]

\* A call with its arguments evaluated first, once, as Python evaluates them
Call1(F(_), e) == CHOOSE y \in {F(x) : x \in {e}} : TRUE

Call2(F(_, _), e1, e2) == CHOOSE y \in {F(x1, x2) : x1 \in {e1}, x2 \in {e2}} : TRUE

\* for safe_cell in known_safes: self.mark_safe(safe_cell)
RECURSIVE MarkAllSafe(_, _)
MarkAllSafe(ai, cells) ==
    IF cells = {} THEN ai
    ELSE LET c == CHOOSE x \in cells : TRUE
         IN Call2(MarkAllSafe, mark_safe(ai, c), cells \ {c})

\* for mine_cell in known_mines: self.mark_mine(mine_cell)
RECURSIVE MarkAllMine(_, _)
MarkAllMine(ai, cells) ==
    IF cells = {} THEN ai
    ELSE LET c == CHOOSE x \in cells : TRUE
         IN Call2(MarkAllMine, mark_mine(ai, c), cells \ {c})

check_sentence(ai, sentence) ==
    IF Truthy(known_safes(sentence))
    THEN [ai |-> MarkAllSafe(ai, sentence.cells), ret |-> TRUE]
    ELSE IF Truthy(known_mines(sentence))
    THEN [ai |-> MarkAllMine(ai, sentence.cells), ret |-> TRUE]
    ELSE [ai |-> ai, ret |-> FALSE]

ListRemove_last(list, x) == SubSeq(list, 1, Len(list) - 1)

\* list.remove(x): drops the first element equal to x (Sentence.__eq__)
ListRemove(list, x) ==
    LET first == CHOOSE i \in DOMAIN list :
                     list[i] = x /\ \A j \in 1 .. i - 1 : list[j] # x
    IN SubSeq(list, 1, first - 1) \o SubSeq(list, first + 1, Len(list))

ResolveOne_no_rescan(st) ==
    LET After(r) ==
            IF r.ret
            THEN [ai |-> [r.ai EXCEPT !.knowledge =
                              ListRemove(@, r.ai.knowledge[st.idx])],
                  idx |-> st.idx + 1, loopB |-> st.loopB]
            ELSE [st EXCEPT !.idx = @ + 1]
    IN Call1(After, check_sentence(st.ai, st.ai.knowledge[st.idx]))

\* The body of "for sentence in self.knowledge" at the list iterator's
\* position idx (1-based), lines 253-256.  A removal at or before idx shifts
\* the rest of the list left, and the iterator still moves on by one.
ResolveOne(st) ==
    LET After(r) ==
            IF r.ret
            THEN [ai |-> [r.ai EXCEPT !.knowledge =
                              ListRemove(@, r.ai.knowledge[st.idx])],
                  idx |-> st.idx + 1, loopB |-> TRUE]
            ELSE [st EXCEPT !.idx = @ + 1]
    IN Call1(After, check_sentence(st.ai, st.ai.knowledge[st.idx]))

\* for sentence in self.knowledge: ...   (the iterator stops at the list's
\* current length)
RECURSIVE ResolveFor(_)
ResolveFor(st) ==
    IF st.idx > Len(st.ai.knowledge) THEN st
    ELSE Call1(ResolveFor, ResolveOne(st))

\* loopB = False; for ...: ...
ResolvePass(ai) ==
    LET Result(st) == [ai |-> st.ai, loopB |-> st.loopB]
    IN Call1(Result, ResolveFor([ai |-> ai, idx |-> 1, loopB |-> FALSE]))

\* while True: ... if not loopB: break
RECURSIVE ResolveLoop(_)
ResolveLoop(ai) ==
    LET Again(r) == IF r.loopB THEN ResolveLoop(r.ai) ELSE r.ai
    IN Call1(Again, ResolvePass(ai))

CellSets(k) == {k[i].cells : i \in DOMAIN k}

Inferred_count_swapped(A, B) == Sentence(B.cells \ A.cells, A.count - B.count)

\* Sentence(list(B.cells - A.cells), B.count - A.count)
Inferred(A, B) == Sentence(B.cells \ A.cells, B.count - A.count)

Appends_unless_covered(sets, A, B) ==
    /\ A.cells \subseteq B.cells
    /\ \A c \in sets : ~(B.cells \ A.cells \subseteq c)

\* if A.cells.issubset(B.cells): ... if inferred_sentence.cells not in sets:
Appends(sets, A, B) ==
    A.cells \subseteq B.cells /\ Inferred(A, B).cells \notin sets

PairsInOrder_forward_only(k) ==
    LET length == Len(k)
        grid == [q \in 1 .. length * length |->
                    LET i == ((q - 1) \div length) + 1
                        j == ((q - 1) % length) + 1
                    IN [i |-> i, j |-> j, A |-> k[i], B |-> k[j]]]
        InRange(c) == c.i < c.j
    IN SelectSeq(grid, InRange)

\* for i in range(length): for j in range(i + 1, length): the pair
\* (knowledge[i], knowledge[j]) and then the pair (knowledge[j], knowledge[i]),
\* in loop order.  sets is taken before the loops and the loops read only
\* knowledge[0 .. length - 1], so the appends do not change what a later
\* pair sees.
PairsInOrder(k) ==
    LET length == Len(k)
        grid == [q \in 1 .. 2 * length * length |->
                    LET p == (q - 1) \div 2
                        i == (p \div length) + 1
                        j == (p % length) + 1
                    IN IF q % 2 = 1 THEN [i |-> i, j |-> j, A |-> k[i], B |-> k[j]]
                       ELSE [i |-> i, j |-> j, A |-> k[j], B |-> k[i]]]
        InRange(c) == c.i < c.j
    IN SelectSeq(grid, InRange)

\* self.knowledge.append(inferred_sentence), in the order of the hits
InferredAll(hits) == [n \in DOMAIN hits |-> Inferred(hits[n].A, hits[n].B)]

DerivePass_flag_on_subset(ai) ==
    LET Sub(c) == c.A.cells \subseteq c.B.cells
        Derived(sets, pairs) ==
            LET Test(c) == Appends(sets, c.A, c.B)
            IN [ai |-> [ai EXCEPT !.knowledge = @ \o InferredAll(SelectSeq(pairs, Test))],
                loopA |-> SelectSeq(pairs, Sub) # <<>>]
    IN Call2(Derived, CellSets(ai.knowledge), PairsInOrder(ai.knowledge))

\* sets = [sentence.cells for sentence in self.knowledge]; loopA is set
\* exactly when a sentence is appended (lines 262-288)
DerivePass(ai) ==
    LET Derived(sets, pairs) ==
            LET Test(c) == Appends(sets, c.A, c.B)
                Appended(hits) ==
                    [ai |-> [ai EXCEPT !.knowledge = @ \o InferredAll(hits)],
                     loopA |-> hits # <<>>]
            IN Call1(Appended, SelectSeq(pairs, Test))
    IN Call2(Derived, CellSets(ai.knowledge), PairsInOrder(ai.knowledge))

\* while True: resolve; derive; if not loopA: break
RECURSIVE InferenceLoop(_)
InferenceLoop(ai) ==
    LET Again(d) == IF d.loopA THEN InferenceLoop(d.ai) ELSE d.ai
        Derive(resolved) == Call1(Again, DerivePass(resolved))
    IN Call1(Derive, ResolveLoop(ai))

Surrounding_unknown_only(ai, cell) ==
    {c \in Around(cell) : c \notin ai.safes /\ c \notin ai.mines}

\* the in-bounds cells around cell that are not in safes (cell itself is in
\* safes by now), lines 231-238
Surrounding(ai, cell) == {c \in Around(cell) : c \notin ai.safes}

AddStart_always_appends(ai, cell, count) ==
    LET Rest(a1) ==
            LET new_sentence == Sentence(Surrounding(a1, cell), count)
                Stored(r) == [r.ai EXCEPT !.knowledge = Append(@, new_sentence)]
            IN Call1(Stored, check_sentence(a1, new_sentence))
    IN Call1(Rest, [mark_safe(ai, cell) EXCEPT !.moves_made = @ \cup {cell}])

\* add_knowledge up to the inference loop
AddStart(ai, cell, count) ==
    LET Rest(a1) ==
            LET new_sentence == Sentence(Surrounding(a1, cell), count)
                Stored(r) == IF r.ret THEN r.ai
                             ELSE [a1 EXCEPT !.knowledge = Append(@, new_sentence)]
            IN Call1(Stored, check_sentence(a1, new_sentence))
    IN Call1(Rest, [mark_safe(ai, cell) EXCEPT !.moves_made = @ \cup {cell}])

add_knowledge(ai, cell, count) == InferenceLoop(AddStart(ai, cell, count))

\* One scan of knowledge (lines 252-255): the engine and the iterator's
\* position before each sentence the scan meets, and after the scan
RECURSIVE ScanStates(_)
ScanStates(st) ==
    IF st.idx > Len(st.ai.knowledge) THEN {st}
    ELSE {st} \cup Call1(ScanStates, ResolveOne(st))

ScanStart(ai) == [ai |-> ai, idx |-> 1, loopB |-> FALSE]

\* The inference loop run from ai (lines 247-290): the engine at every
\* point of its scans, which are also the points where its derivation
\* passes start and end, and the engine as add_knowledge returns it
RECURSIVE LoopRun(_)
LoopRun(ai) ==
    LET Derived(d) == IF d.loopA THEN LoopRun(d.ai)
                      ELSE [states |-> {d.ai}, ret |-> d.ai]
        Scanned(r) == IF r.loopB THEN LoopRun(r.ai)
                      ELSE Call1(Derived, DerivePass(r.ai))
        Join(here, rest) == [states |-> {st.ai : st \in here} \cup rest.states,
                             ret |-> rest.ret]
    IN Call2(Join, ScanStates(ScanStart(ai)), Call1(Scanned, ResolvePass(ai)))

make_safe_move_any_safe(ai) ==
    IF ai.safes # {} THEN {Some(m) : m \in ai.safes} ELSE {None}

make_safe_move(ai) ==
    LET possible_moves == {m \in ai.safes : m \notin ai.moves_made}
    IN IF possible_moves # {} THEN {Some(m) : m \in possible_moves} ELSE {None}

make_random_move_any_unplayed(ai) ==
    LET possible_moves == {m \in Cells : m \notin ai.moves_made}
    IN IF possible_moves # {} THEN {Some(m) : m \in possible_moves} ELSE {None}

make_random_move(ai) ==
    LET possible_moves == {m \in Cells : m \notin ai.moves_made /\ m \notin ai.mines}
    IN IF possible_moves # {} THEN {Some(m) : m \in possible_moves} ELSE {None}

(* ------------------------------- actions ------------------------------ *)

SetAI(ai) ==
    /\ moves_made' = ai.moves_made
    /\ safes' = ai.safes
    /\ mines' = ai.mines
    /\ knowledge' = ai.knowledge

\* Minesweeper.__init__ places the mines; MinesweeperAI.__init__ starts empty
Boards == {b \in SUBSET Cells : Cardinality(b) <= MaxMines}

Init ==
    /\ board \in Boards
    /\ moves_made = {}
    /\ safes = {}
    /\ mines = {}
    /\ knowledge = <<>>
    /\ pc = "idle"
    /\ calls = 0
    /\ op = "init"
    /\ move = None

\* The board contract: add_knowledge(cell, nearby_mines(cell)) for a cell
\* of the board that is no mine.  The whole call is one step.
AddKnowledge(cell) ==
    /\ pc = "idle"
    /\ calls < MaxCalls
    /\ ~is_mine(board, cell)
    /\ \E ai \in {add_knowledge(Self, cell, nearby_mines(board, cell))} : SetAI(ai)
    /\ calls' = calls + 1
    /\ op' = "add_knowledge"
    /\ move' = None
    /\ UNCHANGED <<board, pc>>

Next == \E cell \in Cells : AddKnowledge(cell)

Spec == Init /\ [][Next]_vars

(* ---------- the engine playing a game: query, then open the move ------- *)

MakeSafeMove_records_move ==
    /\ pc = "idle"
    /\ move = None
    /\ move' \in make_safe_move(Self)
    /\ moves_made' = moves_made \cup move'
    /\ op' = "make_safe_move"
    /\ UNCHANGED <<board, safes, mines, knowledge, pc, calls>>

MakeSafeMove ==
    /\ pc = "idle"
    /\ move = None
    /\ move' \in make_safe_move(Self)
    /\ op' = "make_safe_move"
    /\ UNCHANGED <<board, moves_made, safes, mines, knowledge, pc, calls>>

MakeRandomMove ==
    /\ pc = "idle"
    /\ move = None
    /\ move' \in make_random_move(Self)
    /\ op' = "make_random_move"
    /\ UNCHANGED <<board, moves_made, safes, mines, knowledge, pc, calls>>

\* The returned move is opened; if it is no mine the board reports its count
PlayMove ==
    /\ move # None
    /\ \E cell \in move : AddKnowledge(cell)

NextPlay ==
    \/ MakeSafeMove
    \/ MakeRandomMove
    \/ PlayMove

SpecPlay == Init /\ [][NextPlay]_vars

(* ------- add_knowledge with any cell and count, one pass per step ------ *)

InitLive ==
    /\ board = {}
    /\ moves_made = {}
    /\ safes = {}
    /\ mines = {}
    /\ knowledge = <<>>
    /\ pc = "idle"
    /\ calls = 0
    /\ op = "init"
    /\ move = None

\* lines 227-244, for the first limit calls
AddBeginUpTo(limit, cell, count) ==
    /\ pc = "idle"
    /\ calls < limit
    /\ \E ai \in {AddStart(Self, cell, count)} : SetAI(ai)
    /\ pc' = "resolve"
    /\ calls' = calls + 1
    /\ op' = "add_knowledge"
    /\ move' = None
    /\ UNCHANGED board

AddBegin(cell, count) == AddBeginUpTo(MaxCalls, cell, count)

\* lines 251-260: one scan of knowledge; scan again if a sentence resolved
ResolveStep ==
    /\ pc = "resolve"
    /\ \E r \in {ResolvePass(Self)} :
          /\ SetAI(r.ai)
          /\ pc' = IF r.loopB THEN "resolve" ELSE "derive"
    /\ UNCHANGED <<board, calls, op, move>>

\* lines 262-290: one derivation pass; the call returns if nothing was appended
DeriveStep ==
    /\ pc = "derive"
    /\ \E d \in {DerivePass(Self)} :
          /\ SetAI(d.ai)
          /\ pc' = IF d.loopA THEN "resolve" ELSE "idle"
    /\ UNCHANGED <<board, calls, op, move>>

NextLive ==
    \/ \E cell \in Cells : \E count \in Counts : AddBegin(cell, count)
    \/ ResolveStep
    \/ DeriveStep

\* Python runs the call to its end: a pass that can run does run.  Nothing
\* obliges the caller to call add_knowledge again.
SpecLive ==
    InitLive /\ [][NextLive]_vars /\ WF_vars(ResolveStep) /\ WF_vars(DeriveStep)

(* ------- the board contract, one pass of add_knowledge per step -------- *)

AddBeginBoard(cell) ==
    /\ ~is_mine(board, cell)
    /\ AddBegin(cell, nearby_mines(board, cell))

NextSteps ==
    \/ \E cell \in Cells : AddBeginBoard(cell)
    \/ ResolveStep
    \/ DeriveStep

SpecSteps == Init /\ [][NextSteps]_vars

(* --- longer games in one corner of the grid: any count, the cells of --- *)
(* --- the corner block, one pass of add_knowledge per step            --- *)

ScanCells == Around(<<0, 0>>)

NextScan ==
    \/ \E cell \in ScanCells : \E count \in Counts :
          AddBeginUpTo(MaxScanCalls, cell, count)
    \/ ResolveStep
    \/ DeriveStep

SpecScan == InitLive /\ [][NextScan]_vars

(* ---- add_knowledge with any cell and count, then make_random_move ----- *)

\* the whole call is one step
AddKnowledgeAny(cell, count) ==
    /\ pc = "idle"
    /\ calls < MaxCalls
    /\ \E ai \in {add_knowledge(Self, cell, count)} : SetAI(ai)
    /\ calls' = calls + 1
    /\ op' = "add_knowledge"
    /\ move' = None
    /\ UNCHANGED <<board, pc>>

\* a cell is opened without asking the engine
OpenAny ==
    /\ move = None
    /\ \E cell \in Cells : \E count \in Counts : AddKnowledgeAny(cell, count)

\* the move the engine returned is opened and reported with some count
OpenMove ==
    /\ move # None
    /\ \E cell \in move : \E count \in Counts : AddKnowledgeAny(cell, count)

NextQuery ==
    \/ OpenAny
    \/ MakeRandomMove
    \/ OpenMove

SpecQuery == InitLive /\ [][NextQuery]_vars

(* ------------------------------- claims ------------------------------- *)

Sentences == {knowledge[i] : i \in DOMAIN knowledge}

\* C1: under the board contract, whenever add_knowledge has returned the
\* sets safes and mines are disjoint.
C1_SafesMinesDisjoint == safes \cap mines = {}

C1_Witness ==
    /\ op = "add_knowledge"
    /\ mines # {}
    /\ safes \ moves_made # {}

\* C2: under the board contract no cell of safes is a mine of the board,
\* every cell of mines is one, and no move make_safe_move can return is a mine.
C2_KnowledgeSound ==
    /\ \A c \in safes : ~is_mine(board, c)
    /\ \A c \in mines : is_mine(board, c)
    /\ \A m \in make_safe_move(Self) : \A c \in m : ~is_mine(board, c)

C2_Witness ==
    /\ calls = MaxCalls
    /\ mines # {}
    /\ \E m \in make_safe_move(Self) : m # None

\* C3: whenever add_knowledge has returned, no sentence of knowledge holds
\* a cell that is in safes or in mines.
C3_NoResolvedCellInKnowledge ==
    \A s \in Sentences : s.cells \cap (safes \cup mines) = {}

\* C4: under the board contract, whenever add_knowledge has returned every
\* sentence of knowledge has 0 <= count <= |cells|.
C4_CountWithinCells ==
    \A s \in Sentences : 0 <= s.count /\ s.count <= Cardinality(s.cells)

C4_Witness ==
    /\ mines # {}
    /\ \E s \in Sentences : s.cells # {} /\ s.count > 0
    /\ \E s \in Sentences : s.cells = {}

\* C5: every call of add_knowledge, with any in-bounds cell and any count,
\* reaches a pass that resolves and derives nothing, and returns.
C5_AddKnowledgeTerminates == (pc # "idle") ~> (pc = "idle")

C5_Witness ==
    /\ pc = "idle"
    /\ calls = MaxCalls
    /\ mines # {}
    /\ Len(knowledge) >= 3

\* C6: Sentence.mark_mine never leaves a sentence with a negative count:
\* a resolution scan that starts with every count >= 0 ends with every
\* count >= 0.
C6_MarkMineKeepsCountNonNegative ==
    [][(pc = "resolve" /\ \A i \in DOMAIN knowledge : knowledge[i].count >= 0)
         => \A i \in DOMAIN knowledge' : knowledge'[i].count >= 0]_vars

\* C7: a call of make_safe_move or make_random_move leaves moves_made,
\* safes, mines and knowledge unchanged.
C7_QueriesReadOnly ==
    [][op' \in {"make_safe_move", "make_random_move"}
         => UNCHANGED <<moves_made, safes, mines, knowledge>>]_vars

C7_Witness ==
    /\ op = "make_safe_move"
    /\ move # None
    /\ knowledge # <<>>
    /\ moves_made # {}

\* C8: make_safe_move returns a cell of safes that is not in moves_made when
\* there is one, None exactly when there is none, and can return each such cell.
C8_SafeMoveResult ==
    /\ op = "make_safe_move" =>
          /\ move = None <=> safes \ moves_made = {}
          /\ \A c \in move : c \in safes /\ c \notin moves_made
    /\ (pc = "idle" /\ move = None) =>
          \A c \in safes \ moves_made : Some(c) \in make_safe_move(Self)

C8_Witness ==
    /\ op = "make_safe_move"
    /\ move # None
    /\ moves_made # {}
    /\ Cardinality(safes \ moves_made) >= 2

C8_WitnessNone ==
    /\ op = "make_safe_move"
    /\ move = None
    /\ moves_made # {}

\* C9: make_random_move returns an in-bounds cell that is neither in
\* moves_made nor in mines when there is one, and None exactly when
\* moves_made and mines cover the grid.
C9_RandomMoveResult ==
    op = "make_random_move" =>
       /\ move = None <=> Cells \subseteq (moves_made \cup mines)
       /\ \A c \in move : /\ c[1] \in 0 .. Height - 1
                          /\ c[2] \in 0 .. Width - 1
                          /\ c \notin moves_made
                          /\ c \notin mines

C9_Witness ==
    /\ op = "make_random_move"
    /\ move # None
    /\ mines # {}

\* moves_made and mines cover the grid and make_random_move has returned None
C9_WitnessNone ==
    /\ op = "make_random_move"
    /\ move = None
    /\ mines # {}
    /\ moves_made \cup mines = Cells

\* C10: no step of add_knowledge removes a cell from safes, mines or
\* moves_made.
C10_SetsOnlyGrow ==
    [][/\ moves_made \subseteq moves_made'
       /\ safes \subseteq safes'
       /\ mines \subseteq mines']_vars

C10_Witness ==
    /\ pc = "idle"
    /\ calls = MaxCalls
    /\ Cardinality(moves_made) = MaxCalls
    /\ mines # {}
    /\ safes \ moves_made # {}

\* C11: in every state in which the engine can be called, and for every
\* in-bounds cell, add_knowledge(cell, 0) returns with cell in moves_made and
\* with cell and all its in-bounds neighbours in safes.
C11_ZeroCountMarksNeighboursSafe ==
    (pc = "idle" /\ calls < MaxCalls) =>
       \A cell \in Cells :
          \E r \in {add_knowledge(Self, cell, 0)} :
             /\ cell \in r.moves_made
             /\ Around(cell) \subseteq r.safes

\* a zero observation on a cell not yet played, in a state with knowledge,
\* that makes new cells safe and lets the engine conclude a new mine
C11_Witness ==
    /\ pc = "idle"
    /\ calls < MaxCalls
    /\ knowledge # <<>>
    /\ \E cell \in Cells \ moves_made :
          \E r \in {add_knowledge(Self, cell, 0)} :
             /\ Around(cell) \ safes # {cell}
             /\ Around(cell) \subseteq r.safes
             /\ r.mines # mines

ProperSubset(a, b) == a \subseteq b /\ a # b

\* C12: under the board contract, if at any point of the inference loop of
\* a call knowledge holds sentences A and B with A.cells a proper subset of
\* B.cells, then when the call returns B.cells - A.cells is in safes if the
\* counts are equal, and in mines if the counts differ by the size of
\* B.cells - A.cells.
C12_SubsetConclusionsReached ==
    [][(pc = "idle" /\ pc' = "resolve") =>
          \E run \in {LoopRun(Self')} :
             \A ai \in run.states :
                \A i, j \in DOMAIN ai.knowledge :
                   LET A == ai.knowledge[i]
                       B == ai.knowledge[j]
                       rest == B.cells \ A.cells
                   IN ProperSubset(A.cells, B.cells) =>
                         /\ B.count = A.count => rest \subseteq run.ret.safes
                         /\ B.count - A.count = Cardinality(rest) =>
                                rest \subseteq run.ret.mines]_vars

\* a scan starts with two non-empty sentences, one properly inside the
\* other with the same count, and the difference not yet known to be safe
C12_Witness ==
    /\ pc = "resolve"
    /\ \E i, j \in DOMAIN knowledge :
          /\ knowledge[i].cells # {}
          /\ ProperSubset(knowledge[i].cells, knowledge[j].cells)
          /\ knowledge[j].count = knowledge[i].count
          /\ ~(knowledge[j].cells \ knowledge[i].cells \subseteq safes)

C12_WitnessMines ==
    /\ pc = "resolve"
    /\ \E i, j \in DOMAIN knowledge :
          /\ knowledge[i].cells # {}
          /\ ProperSubset(knowledge[i].cells, knowledge[j].cells)
          /\ knowledge[j].count - knowledge[i].count
                = Cardinality(knowledge[j].cells \ knowledge[i].cells)
          /\ ~(knowledge[j].cells \ knowledge[i].cells \subseteq mines)

\* Sentence.mark_safe and Sentence.mark_mine on every sentence over the
\* grid, with counts below zero included, and every in-bounds cell
SentenceMarkFrame ==
    \A cells \in SUBSET Cells : \A count \in (0 - MaxCount) .. MaxCount :
       \A cell \in Cells :
          \E s \in {Sentence(cells, count)} :
          \E sa \in {Sentence_mark_safe(s, cell)} :
          \E sm \in {Sentence_mark_mine(s, cell)} :
             /\ sa.cells = s.cells \ {cell}
             /\ sm.cells = s.cells \ {cell}
             /\ sa.count = s.count
             /\ cell \in s.cells => sm.count = s.count - 1
             /\ cell \notin s.cells => sa = s /\ sm = s

\* C13: Sentence.mark_safe removes the cell and keeps count,
\* Sentence.mark_mine removes the cell and lowers count by exactly 1, both
\* leave a sentence without the cell as it is and keep every other cell; and
\* in every state the engine reaches, its mark_safe / mark_mine do this to
\* every sentence of knowledge, in place.
C13_MarkFrame ==
    /\ SentenceMarkFrame
    /\ \A cell \in Cells :
          \E a \in {mark_safe(Self, cell)} :
          \E m \in {mark_mine(Self, cell)} :
             /\ DOMAIN a.knowledge = DOMAIN knowledge
             /\ DOMAIN m.knowledge = DOMAIN knowledge
             /\ \A i \in DOMAIN knowledge :
                   /\ a.knowledge[i] = Sentence_mark_safe(knowledge[i], cell)
                   /\ m.knowledge[i] = Sentence_mark_mine(knowledge[i], cell)

\* knowledge holds two non-empty sentences and a cell that is in one and not
\* in the other, after mark_safe has acted on a sentence of knowledge
C13_Witness ==
    /\ calls = MaxCalls
    /\ \E s, t \in Sentences : t.cells # {} /\ s.cells \ t.cells # {}
    /\ \E s \in Sentences : \E cell \in s.cells :
          /\ Sentence_mark_mine(s, cell).count = s.count - 1
          /\ mark_safe(Self, cell).knowledge # knowledge

\* mark_mine has acted and left a sentence of several cells in knowledge
C13_WitnessMine ==
    /\ mines # {}
    /\ Len(knowledge) >= 2
    /\ \E s \in Sentences : Cardinality(s.cells) >= 2

\* C14: whenever add_knowledge has returned, knowledge holds no sentence
\* with an empty cell set.
C14_NoEmptySentenceRetained ==
    pc = "idle" => \A s \in Sentences : s.cells # {}

\* C15: a derivation pass never appends a sentence equal (same cells, same
\* count) to a sentence that is in knowledge when it is appended, be it one
\* from before the pass or one appended earlier in the pass.
C15_NoDuplicateDerived ==
    [][pc = "derive" =>
          \A n \in Len(knowledge) + 1 .. Len(knowledge') :
             \A m \in 1 .. n - 1 : knowledge'[m] # knowledge'[n]]_vars

Resolved(s) == s.cells # {} /\ (s.count = 0 \/ s.count = Cardinality(s.cells))

\* C16: whenever add_knowledge has returned, no sentence of knowledge with
\* a non-empty cell set has count = 0 or count = |cells|; and when a scan
\* meets such a sentence, the call returns with all its cells in safes
\* (count = 0), respectively in mines (count = |cells|).
C16_NoResolvedSentenceLeft ==
    /\ pc = "idle" => \A s \in Sentences : ~Resolved(s)
    /\ pc = "resolve" =>
          \E r \in {InferenceLoop(Self)} :
             \A st \in ScanStates(ScanStart(Self)) :
                st.idx <= Len(st.ai.knowledge) =>
                   \E s \in {st.ai.knowledge[st.idx]} :
                      /\ (s.cells # {} /\ s.count = 0) => s.cells \subseteq r.safes
                      /\ (s.cells # {} /\ s.count = Cardinality(s.cells)) =>
                            s.cells \subseteq r.mines

\* the call has returned after a scan resolved a sentence as mines, and has
\* left a sentence with cells in knowledge
C16_Witness ==
    /\ pc = "idle"
    /\ mines # {}
    /\ \E s \in Sentences : s.cells # {}

\* the same for a sentence resolved as safe
C16_WitnessSafe ==
    /\ pc = "idle"
    /\ safes \ moves_made # {}
    /\ \E s \in Sentences : s.cells # {}

\* C17: under the board contract, whenever add_knowledge has returned, for
\* every two sentences A and B of knowledge with A.cells a proper subset of
\* B.cells, knowledge holds a sentence with cells B.cells - A.cells and count
\* B.count - A.count.
C17_ClosedUnderSubsetInference ==
    pc = "idle" =>
       \A i, j \in DOMAIN knowledge :
          ProperSubset(knowledge[i].cells, knowledge[j].cells) =>
             \E s \in Sentences :
                /\ s.cells = knowledge[j].cells \ knowledge[i].cells
                /\ s.count = knowledge[j].count - knowledge[i].count

\* a call has returned with a sentence with cells properly inside another
\* and a difference that could not be resolved
C17_Witness ==
    /\ op = "add_knowledge"
    /\ \E i, j \in DOMAIN knowledge :
          /\ knowledge[i].cells # {}
          /\ ProperSubset(knowledge[i].cells, knowledge[j].cells)
          /\ knowledge[j].count - knowledge[i].count > 0
          /\ Cardinality(knowledge[j].cells \ knowledge[i].cells)
                > knowledge[j].count - knowledge[i].count

RemoveAt(list, p) == SubSeq(list, 1, p - 1) \o SubSeq(list, p + 1, Len(list))

\* C18: whenever a resolution scan removes a sentence from knowledge, the
\* list it leaves is the list as it was at that moment without one sentence
\* whose cell set was empty; no sentence with cells is removed.
C18_OnlyEmptySentencesRemoved ==
    pc = "resolve" =>
       \A st \in ScanStates(ScanStart(Self)) :
          st.idx <= Len(st.ai.knowledge) =>
             \E r \in {check_sentence(st.ai, st.ai.knowledge[st.idx])} :
             \E after \in {ResolveOne(st).ai.knowledge} :
                IF r.ret
                THEN \E p \in DOMAIN r.ai.knowledge :
                        /\ r.ai.knowledge[p].cells = {}
                        /\ after = RemoveAt(r.ai.knowledge, p)
                ELSE after = st.ai.knowledge

\* a scan is about to remove sentences from a list that already holds an
\* empty sentence, and to leave a sentence with cells
C18_Witness ==
    /\ pc = "resolve"
    /\ \E i \in DOMAIN knowledge : knowledge[i].cells = {}
    /\ \E r \in {ResolvePass(Self)} :
          /\ r.loopB
          /\ Len(r.ai.knowledge) < Len(knowledge)
          /\ \E i \in DOMAIN r.ai.knowledge : r.ai.knowledge[i].cells # {}

\* a scan is about to remove the first of two equal sentences and to skip
\* the sentence after it
C18_WitnessSkip ==
    /\ pc = "resolve"
    /\ \E st \in ScanStates(ScanStart(Self)) :
          /\ st.idx < Len(st.ai.knowledge)
          /\ st.ai.knowledge[st.idx] = st.ai.knowledge[st.idx + 1]
          /\ check_sentence(st.ai, st.ai.knowledge[st.idx]).ret

\* C19: in every state in which the engine can be called, for every in-bounds
\* cell and every count, the sentence add_knowledge(cell, count) builds has
\* the given count and the in-bounds neighbours of cell that are not in
\* safes as its cells; with 0 < count < |cells| it is appended to knowledge;
\* with cells and count = 0, respectively count = |cells|, it is not appended
\* and its cells are marked safe, respectively mine.
C19_NewSentence ==
    (pc = "idle" /\ calls < MaxCalls) =>
       \A cell \in Cells : \A count \in Counts :
          \E before \in {mark_safe(Self, cell)} :
          \E new \in {Sentence((Around(cell) \ {cell}) \ safes, count)} :
          \E r \in {AddStart(Self, cell, count)} :
             /\ Surrounding(before, cell) = new.cells
             /\ (0 < count /\ count < Cardinality(new.cells)) =>
                   r.knowledge = Append(before.knowledge, new)
             /\ (new.cells # {} /\ count = 0) =>
                   /\ Len(r.knowledge) = Len(knowledge)
                   /\ new.cells \subseteq r.safes
                   /\ r.mines = mines
             /\ (new.cells # {} /\ count = Cardinality(new.cells)) =>
                   /\ Len(r.knowledge) = Len(knowledge)
                   /\ new.cells \subseteq r.mines
                   /\ r.safes = safes \cup {cell}

\* the engine holds knowledge and safe cells next to a cell not yet played,
\* on which one count gets the new sentence appended, count 0 gets its cells
\* marked safe and a third count gets them marked as mines
C19_Witness ==
    /\ pc = "idle"
    /\ calls < MaxCalls
    /\ knowledge # <<>>
    /\ \E cell \in Cells \ moves_made :
          /\ Around(cell) \cap safes # {}
          /\ Cardinality((Around(cell) \ {cell}) \ safes) \in 2 .. MaxCount
          /\ Len(AddStart(Self, cell, 1).knowledge) = Len(knowledge) + 1
          /\ AddStart(Self, cell, 0).safes # safes \cup {cell}
          /\ AddStart(Self, cell, Cardinality((Around(cell) \ {cell}) \ safes)).mines
                # mines

====
